---- MODULE Spec2Model ----
(***************************************************************************)
(* Crafting Inventory (crafting_inventory_tk.py): the in-memory record     *)
(* store AppState, its filter -> sort -> paginate query, and the Tk        *)
(* screens' handlers that drive it.                                        *)
(*                                                                         *)
(* Representation.  A Python str is the sequence of its code points (the   *)
(* text is given in a comment after each literal), so that lower(),        *)
(* strip(), join, split, the substring test "q in hay" and the comparison  *)
(* of two str are computed, not assumed.  A quantity (a Python float) is   *)
(* the integer number of hundredths (2.5 -> 250): every quantity of the    *)
(* seed data and of the forms is a multiple of 0.01 and the code only      *)
(* compares quantities.  A datetime is an integer: the seed dates          *)
(* 2026-01-15 .. 2026-01-26 are 15 .. 26 and datetime.now() reads the      *)
(* variable now.                                                           *)
(***************************************************************************)
EXTENDS Integers, Sequences, FiniteSets, TLC

VARIABLES
    supplies,           \* AppState.supplies: the list of Supply records
    next_id,            \* AppState.next_id
    current_user,       \* AppState.current_user (Optional[str])
    search_query,       \* AppState.search_query
    sort_by,            \* AppState.sort_by
    sort_dir,           \* AppState.sort_dir
    filter_categories,  \* AppState.filter_categories
    filter_units,       \* AppState.filter_units
    filter_color,       \* AppState.filter_color
    filter_tags,        \* AppState.filter_tags
    page_size,          \* AppState.page_size
    page_index,         \* AppState.page_index
    screen,             \* the frame App._raise put on top
    current_id,         \* DetailScreen._current_id (Optional[int])
    tree,               \* the ActionID (record id) of each row InventoryScreen.tree shows
    lbl_info,           \* InventoryScreen.lbl_info: "<shown> results (of <total>)"
    banner,             \* the banner last shown, the App's or the LoginScreen's own:
                        \* its kind and message
    now,                \* the clock datetime.now() reads
    op,                 \* the last operation performed and its arguments
    ret,                \* what that operation returned
    deleted_ids,        \* the ids of the records delete_supply has removed
    n_mut               \* how many times the store was changed (add, edit, delete)

vars == <<supplies, next_id, current_user, search_query, sort_by, sort_dir,
          filter_categories, filter_units, filter_color, filter_tags,
          page_size, page_index, screen, current_id, tree, lbl_info,
          banner, now, op, ret, deleted_ids, n_mut>>

view_vars == <<search_query, sort_by, sort_dir, filter_categories,
               filter_units, filter_color, filter_tags, page_size, page_index>>

\* Optional[T]: None is the empty sequence and a value x is <<x>>.
None == <<>>
Some(x) == <<x>>
The(o) == o[1]

-----------------------------------------------------------------------------
(* Bounds of the model.                                                    *)

\* under SpecStore the store is changed (a record added, edited or deleted)
\* at most MaxMutations times in a run.
MaxMutations == 2
\* under SpecQuery at most MaxAdds records are added in a run.
MaxAdds == 1
\* under Spec the store is changed at most MaxUiMutations times in a run.
MaxUiMutations == 1
\* under SpecForms the forms change the store at most MaxFormMutations
\* times in a run.
MaxFormMutations == 2
\* the clock advances at most MaxTicks times in a run.
MaxTicks == 1
\* a page size below the application's, under which the seed records fill
\* four pages; the paging properties are checked under both.
SmallPageSize == 4
\* the largest page index a direct _set_page call passes.
MaxPageIndex == 2

-----------------------------------------------------------------------------
(* Python str operations.                                                  *)

Min(a, b) == IF a < b THEN a ELSE b
Max(a, b) == IF a > b THEN a ELSE b

\* str.lower() on one character: A-Z map to a-z, every other character of
\* the texts modelled (ASCII and the en dash) to itself.
LowerChar(c) == IF c >= 65 /\ c <= 90 THEN c + 32 ELSE c

\* str.lower()
RECURSIVE Lower(_)
Lower(s) ==
    IF s = <<>> THEN <<>> ELSE <<LowerChar(Head(s))>> \o Lower(Tail(s))

\* str.isspace() for the characters the texts hold: space, tab, newline
IsSpace(c) == c \in {32, 9, 10}

RECURSIVE LStrip(_)
LStrip(s) ==
    IF s # <<>> /\ IsSpace(Head(s)) THEN LStrip(Tail(s)) ELSE s

RECURSIVE RStrip(_)
RStrip(s) ==
    IF s # <<>> /\ IsSpace(s[Len(s)]) THEN RStrip(SubSeq(s, 1, Len(s) - 1)) ELSE s

\* str.strip()
Strip(s) == RStrip(LStrip(s))

\* sep.join(parts)
RECURSIVE Join(_, _)
Join(sep, parts) ==
    IF parts = <<>> THEN <<>>
    ELSE IF Len(parts) = 1 THEN parts[1]
    ELSE parts[1] \o sep \o Join(sep, Tail(parts))

\* q in hay for two str
Contains(hay, q) ==
    \E i \in 0..(Len(hay) - Len(q)) : SubSeq(hay, i + 1, i + Len(q)) = q

\* a < b for two str: lexicographic by code point
StrLess(a, b) ==
    \/ Len(a) < Len(b) /\ SubSeq(b, 1, Len(a)) = a
    \/ \E i \in 1..Min(Len(a), Len(b)) :
          /\ \A j \in 1..(i - 1) : a[j] = b[j]
          /\ a[i] < b[i]

\* text.split(sep) for a one-character sep
RECURSIVE Split(_, _)
Split(s, sep) ==
    IF \A i \in 1..Len(s) : s[i] # sep THEN <<s>>
    ELSE LET k == CHOOSE i \in 1..Len(s) :
                      s[i] = sep /\ \A j \in 1..(i - 1) : s[j] # sep
         IN  <<SubSeq(s, 1, k - 1)>> \o Split(SubSeq(s, k + 1, Len(s)), sep)

\* [f(x) for x in seq if p(x)] with f = strip and p = non-empty after strip
RECURSIVE StripNonEmpty(_)
StripNonEmpty(parts) ==
    IF parts = <<>> THEN <<>>
    ELSE IF Strip(Head(parts)) # <<>>
         THEN <<Strip(Head(parts))>> \o StripNonEmpty(Tail(parts))
         ELSE StripNonEmpty(Tail(parts))

\* A slice that gives the whole sequence back when start lies beyond its
\* end; C6 tells it from seq[start:end].
PySlice_whole_when_beyond(seq, start, end) ==
    LET lo == Min(start, Len(seq))
        hi == Min(end, Len(seq))
    IN  IF start >= Len(seq) THEN seq
        ELSE IF lo >= hi THEN <<>> ELSE SubSeq(seq, lo + 1, hi)

\* A slice that takes the element at end as well; C18 tells it from
\* seq[start:end].
PySlice_end_inclusive(seq, start, end) ==
    LET lo == Min(start, Len(seq))
        hi == Min(end + 1, Len(seq))
    IN  IF lo >= hi THEN <<>> ELSE SubSeq(seq, lo + 1, hi)

\* seq[start:end] for 0 <= start, 0 <= end
PySlice(seq, start, end) ==
    LET lo == Min(start, Len(seq))
        hi == Min(end, Len(seq))
    IN  IF lo >= hi THEN <<>> ELSE SubSeq(seq, lo + 1, hi)

\* The float nan.  Every other float of the model is a number of hundredths,
\* and no amount typed into a form comes near this one.
NaN == -99999999

\* a < b for two floats: False when either is nan
FloatLess(a, b) == a # NaN /\ b # NaN /\ a < b

\* math.ceil(a / b) for a >= 0, b >= 1
Ceil(a, b) == (a + b - 1) \div b

-----------------------------------------------------------------------------
(* Data model.                                                             *)

CATEGORIES == << <<89,97,114,110>> (* Yarn *), <<70,97,98,114,105,99>> (* Fabric *), <<84,111,111,108>> (* Tool *), <<78,111,116,105,111,110>> (* Notion *), <<79,116,104,101,114>> (* Other *) >>

UNITS == << <<115,107,101,105,110>> (* skein *), <<103>> (* g *), <<109>> (* m *), <<121,100>> (* yd *), <<112,97,105,114>> (* pair *), <<112,99,115>> (* pcs *) >>

Supply(id, name, category, quantity, unit, color, brand, tags, notes, updated) ==
    [id |-> id, name |-> name, category |-> category, quantity |-> quantity,
     unit |-> unit, color |-> color, brand |-> brand, tags |-> tags,
     notes |-> notes, updated |-> updated]

\* AppState.__init__: the seed records
SeedSupplies ==
  <<
     Supply(1,
            <<68,75,32,89,97,114,110,32,66,108,117,101>> (* DK Yarn Blue *),
            <<89,97,114,110>> (* Yarn *),
            300,
            <<115,107,101,105,110>> (* skein *),
            <<66,108,117,101>> (* Blue *),
            <<67,97,115,99,97,100,101>> (* Cascade *),
            << <<100,107>> (* dk *),
               <<119,111,111,108>> (* wool *),
               <<98,108,117,101>> (* blue *) >>,
            <<70,111,114,32,119,105,110,116,101,114,32,104,97,116,32,112,114,111,106,101,99,116,46>> (* For winter hat project. *),
            19),
     Supply(2,
            <<67,111,116,116,111,110,32,70,97,98,114,105,99>> (* Cotton Fabric *),
            <<70,97,98,114,105,99>> (* Fabric *),
            250,
            <<121,100>> (* yd *),
            <<87,104,105,116,101>> (* White *),
            <<75,111,110,97>> (* Kona *),
            << <<99,111,116,116,111,110>> (* cotton *),
               <<119,104,105,116,101>> (* white *),
               <<113,117,105,108,116,105,110,103>> (* quilting *) >>,
            <<70,111,114,32,113,117,105,108,116,32,98,111,114,100,101,114,115,46>> (* For quilt borders. *),
            19),
     Supply(3,
            <<52,109,109,32,78,101,101,100,108,101,115>> (* 4mm Needles *),
            <<84,111,111,108>> (* Tool *),
            100,
            <<112,97,105,114>> (* pair *),
            <<>> (* "" *),
            <<>> (* "" *),
            <<>>,
            <<>> (* "" *),
            15),
     Supply(4,
            <<87,111,114,115,116,101,100,32,89,97,114,110,32,82,101,100>> (* Worsted Yarn Red *),
            <<89,97,114,110>> (* Yarn *),
            200,
            <<115,107,101,105,110>> (* skein *),
            <<82,101,100>> (* Red *),
            <<76,105,111,110,32,66,114,97,110,100>> (* Lion Brand *),
            << <<119,111,114,115,116,101,100>> (* worsted *),
               <<97,99,114,121,108,105,99>> (* acrylic *),
               <<114,101,100>> (* red *) >>,
            <<83,99,97,114,102,32,112,114,111,106,101,99,116,46>> (* Scarf project. *),
            20),
     Supply(5,
            <<67,111,116,116,111,110,32,66,97,116,116,105,110,103>> (* Cotton Batting *),
            <<70,97,98,114,105,99>> (* Fabric *),
            100,
            <<121,100>> (* yd *),
            <<78,97,116,117,114,97,108>> (* Natural *),
            <<87,97,114,109,32,38,32,78,97,116,117,114,97,108>> (* Warm & Natural *),
            << <<98,97,116,116,105,110,103>> (* batting *),
               <<113,117,105,108,116>> (* quilt *) >>,
            <<76,111,119,32,108,111,102,116,46>> (* Low loft. *),
            22),
     Supply(6,
            <<90,105,112,112,101,114,32,57,45,105,110,99,104>> (* Zipper 9-inch *),
            <<78,111,116,105,111,110>> (* Notion *),
            400,
            <<112,99,115>> (* pcs *),
            <<66,108,97,99,107>> (* Black *),
            <<89,75,75>> (* YKK *),
            << <<122,105,112,112,101,114>> (* zipper *),
               <<98,97,103,115>> (* bags *),
               <<110,111,116,105,111,110>> (* notion *) >>,
            <<70,111,114,32,112,111,117,99,104,101,115,46>> (* For pouches. *),
            18),
     Supply(7,
            <<65,108,108,45,80,117,114,112,111,115,101,32,84,104,114,101,97,100>> (* All-Purpose Thread *),
            <<78,111,116,105,111,110>> (* Notion *),
            20000,
            <<103>> (* g *),
            <<73,118,111,114,121>> (* Ivory *),
            <<71,117,116,101,114,109,97,110,110>> (* Gutermann *),
            << <<112,111,108,121>> (* poly *),
               <<116,104,114,101,97,100>> (* thread *) >>,
            <<53,48,48,109,32,115,112,111,111,108,59,32,97,112,112,114,111,120,32,119,101,105,103,104,116,32,102,111,114,32,116,114,97,99,107,105,110,103,46>> (* 500m spool; approx weight for tracking. *),
            23),
     Supply(8,
            <<69,108,97,115,116,105,99,32,49,45,105,110,99,104>> (* Elastic 1-inch *),
            <<78,111,116,105,111,110>> (* Notion *),
            500,
            <<109>> (* m *),
            <<87,104,105,116,101>> (* White *),
            <<68,114,105,116,122>> (* Dritz *),
            << <<101,108,97,115,116,105,99>> (* elastic *),
               <<119,97,105,115,116,98,97,110,100>> (* waistband *) >>,
            <<78,111,110,45,114,111,108,108,46>> (* Non-roll. *),
            21),
     Supply(9,
            <<69,109,98,114,111,105,100,101,114,121,32,70,108,111,115,115,32,83,101,116>> (* Embroidery Floss Set *),
            <<78,111,116,105,111,110>> (* Notion *),
            2400,
            <<112,99,115>> (* pcs *),
            <<65,115,115,111,114,116,101,100>> (* Assorted *),
            <<68,77,67>> (* DMC *),
            << <<102,108,111,115,115>> (* floss *),
               <<101,109,98,114,111,105,100,101,114,121>> (* embroidery *),
               <<97,115,115,111,114,116,101,100>> (* assorted *) >>,
            <<50,52,45,115,107,101,105,110,32,97,115,115,111,114,116,101,100,32,112,97,99,107,46>> (* 24-skein assorted pack. *),
            17),
     Supply(10,
            <<82,111,116,97,114,121,32,67,117,116,116,101,114,32,66,108,97,100,101,115,32,52,53,109,109>> (* Rotary Cutter Blades 45mm *),
            <<84,111,111,108>> (* Tool *),
            500,
            <<112,99,115>> (* pcs *),
            <<>> (* "" *),
            <<79,108,102,97>> (* Olfa *),
            << <<114,111,116,97,114,121>> (* rotary *),
               <<98,108,97,100,101,115>> (* blades *),
               <<99,117,116,116,105,110,103>> (* cutting *) >>,
            <<82,101,112,108,97,99,101,109,101,110,116,32,98,108,97,100,101,115,46>> (* Replacement blades. *),
            24),
     Supply(11,
            <<80,105,110,115,32,8211,32,71,108,97,115,115,32,72,101,97,100>> (* Pins - Glass Head *),
            <<78,111,116,105,111,110>> (* Notion *),
            10000,
            <<112,99,115>> (* pcs *),
            <<65,115,115,111,114,116,101,100>> (* Assorted *),
            <<67,108,111,118,101,114>> (* Clover *),
            << <<112,105,110,115>> (* pins *),
               <<110,111,116,105,111,110>> (* notion *) >>,
            <<72,101,97,116,45,114,101,115,105,115,116,97,110,116,32,104,101,97,100,115,46>> (* Heat-resistant heads. *),
            16),
     Supply(12,
            <<76,105,110,101,110,32,70,97,98,114,105,99,32,78,97,116,117,114,97,108>> (* Linen Fabric Natural *),
            <<70,97,98,114,105,99>> (* Fabric *),
            175,
            <<121,100>> (* yd *),
            <<78,97,116,117,114,97,108>> (* Natural *),
            <<82,111,98,101,114,116,32,75,97,117,102,109,97,110>> (* Robert Kaufman *),
            << <<108,105,110,101,110>> (* linen *),
               <<103,97,114,109,101,110,116>> (* garment *) >>,
            <<80,114,101,45,119,97,115,104,101,100,46>> (* Pre-washed. *),
            25),
     Supply(13,
            <<66,108,111,99,107,105,110,103,32,77,97,116,115>> (* Blocking Mats *),
            <<84,111,111,108>> (* Tool *),
            900,
            <<112,99,115>> (* pcs *),
            <<71,114,97,121>> (* Gray *),
            <<75,110,105,116,73,81>> (* KnitIQ *),
            << <<98,108,111,99,107,105,110,103>> (* blocking *),
               <<107,110,105,116,116,105,110,103>> (* knitting *) >>,
            <<73,110,116,101,114,108,111,99,107,105,110,103,32,116,105,108,101,115,32,102,111,114,32,98,108,111,99,107,105,110,103,46>> (* Interlocking tiles for blocking. *),
            26)
  >>

\* AppState.__init__: self.next_id
FirstNextId == 4

\* AppState.__init__: self.page_size
PageSize == 10

\* the value of datetime.now() when the application starts: after every
\* date of the seed data
StartClock == 27

-----------------------------------------------------------------------------
(* AppState: the operations on the store.                                  *)

\* The AppState object as a record (the `self` of its methods).
AppState ==
    [supplies |-> supplies, next_id |-> next_id, current_user |-> current_user,
     search_query |-> search_query, sort_by |-> sort_by, sort_dir |-> sort_dir,
     filter_categories |-> filter_categories, filter_units |-> filter_units,
     filter_color |-> filter_color, filter_tags |-> filter_tags,
     page_size |-> page_size, page_index |-> page_index]

\* add_supply(self, s) at time t: the record appended and returned
\* (s.id = self.next_id; s.updated = datetime.now()).
add_supply_record(self, s, t) ==
    [s EXCEPT !.id = self.next_id, !.updated = t]

\* An add_supply that puts the new record first; C17 tells it from
\* add_supply.
add_supply_inserts_first(self, s, t) ==
    [self EXCEPT !.next_id = self.next_id + 1,
                 !.supplies = <<add_supply_record(self, s, t)>> \o self.supplies]

\* add_supply(self, s) at time t: the store afterwards.
add_supply(self, s, t) ==
    [self EXCEPT !.next_id = self.next_id + 1,
                 !.supplies = Append(self.supplies, add_supply_record(self, s, t))]

\* An update_supply that leaves the timestamp alone; C16 tells it from
\* update_supply.
update_supply_keeps_updated(self, i, t) == self

\* update_supply(self, s) at time t: s is the record object at position i
\* of self.supplies, or 0 when the object is not in the list (then only the
\* detached object changes).
update_supply(self, i, t) ==
    IF i = 0 THEN self
    ELSE [self EXCEPT !.supplies[i].updated = t]

\* delete_supply(self, supply_id)
delete_supply(self, supply_id) ==
    [self EXCEPT !.supplies = SelectSeq(self.supplies, LAMBDA x : x.id # supply_id)]

\* find_by_id: the position of the record it returns, 0 for None.
find_index(self, supply_id) ==
    IF \E i \in 1..Len(self.supplies) : self.supplies[i].id = supply_id
    THEN CHOOSE i \in 1..Len(self.supplies) :
            /\ self.supplies[i].id = supply_id
            /\ \A j \in 1..(i - 1) : self.supplies[j].id # supply_id
    ELSE 0

\* find_by_id(self, supply_id)
find_by_id(self, supply_id) ==
    IF find_index(self, supply_id) = 0 THEN None
    ELSE Some(self.supplies[find_index(self, supply_id)])

\* A filter whose search text leaves the tags out; C10 tells it from
\* _matches_filters.
_matches_filters_without_tags(self, s) ==
    LET q   == Strip(Lower(self.search_query))
        hay == Lower(Join(<<32>>, <<s.name, s.category>>))
    IN  /\ (q # <<>>) => Contains(hay, q)
        /\ (self.filter_categories # {}) => s.category \in self.filter_categories
        /\ (self.filter_units # {}) => s.unit \in self.filter_units
        /\ (self.filter_color # <<>>) =>
               Contains(Lower(s.color), Lower(self.filter_color))
        /\ (self.filter_tags # <<>>) =>
               Contains(Lower(Join(<<32>>, s.tags)), Lower(self.filter_tags))

\* A filter that leaves the unit filter out; C11 tells it from
\* _matches_filters.
_matches_filters_without_units(self, s) ==
    LET q   == Strip(Lower(self.search_query))
        hay == Lower(Join(<<32>>, <<s.name, s.category, Join(<<32>>, s.tags)>>))
    IN  /\ (q # <<>>) => Contains(hay, q)
        /\ (self.filter_categories # {}) => s.category \in self.filter_categories
        /\ (self.filter_color # <<>>) =>
               Contains(Lower(s.color), Lower(self.filter_color))
        /\ (self.filter_tags # <<>>) =>
               Contains(Lower(Join(<<32>>, s.tags)), Lower(self.filter_tags))

\* A filter whose color check lets a record without a color pass; C12 tells
\* it from _matches_filters.
_matches_filters_no_color_passes(self, s) ==
    LET q   == Strip(Lower(self.search_query))
        hay == Lower(Join(<<32>>, <<s.name, s.category, Join(<<32>>, s.tags)>>))
    IN  /\ (q # <<>>) => Contains(hay, q)
        /\ (self.filter_categories # {}) => s.category \in self.filter_categories
        /\ (self.filter_units # {}) => s.unit \in self.filter_units
        /\ (self.filter_color # <<>> /\ s.color # <<>>) =>
               Contains(Lower(s.color), Lower(self.filter_color))
        /\ (self.filter_tags # <<>>) =>
               Contains(Lower(Join(<<32>>, s.tags)), Lower(self.filter_tags))

\* _matches_filters(self, s)
_matches_filters(self, s) ==
    LET q   == Strip(Lower(self.search_query))
        hay == Lower(Join(<<32>>, <<s.name, s.category, Join(<<32>>, s.tags)>>))
    IN  /\ (q # <<>>) => Contains(hay, q)
        /\ (self.filter_categories # {}) => s.category \in self.filter_categories
        /\ (self.filter_units # {}) => s.unit \in self.filter_units
        /\ (self.filter_color # <<>>) =>
               Contains(Lower(s.color), Lower(self.filter_color))
        /\ (self.filter_tags # <<>>) =>
               Contains(Lower(Join(<<32>>, s.tags)), Lower(self.filter_tags))

\* _sort_key(self, s)
_sort_key(self, s) ==
    IF self.sort_by = "name" THEN Lower(s.name)
    ELSE IF self.sort_by = "quantity" THEN s.quantity
    ELSE IF self.sort_by = "updated" THEN s.updated
    ELSE Lower(s.name)

\* k1 < k2 for two keys _sort_key(self, .) returned: str for the name key,
\* float for the quantity key, datetime for the updated key.
KeyLess(self, k1, k2) ==
    IF self.sort_by = "quantity" THEN FloatLess(k1, k2)
    ELSE IF self.sort_by = "updated" THEN k1 < k2
    ELSE StrLess(k1, k2)

\* A descending order that also places an element before those it ties
\* with, which gives the ascending result reversed; C7 tells it from Before.
Before_reversed_ascending(self, k1, k2) ==
    IF self.sort_dir = "desc" THEN ~KeyLess(self, k1, k2) ELSE KeyLess(self, k1, k2)

\* Whether list.sort places an element with key k1 strictly before one with
\* key k2: by the key, the comparison turned around under reverse=True.
Before(self, k1, k2) ==
    IF self.sort_dir = "desc" THEN KeyLess(self, k2, k1) ELSE KeyLess(self, k1, k2)

\* One step of the stable sort: x, which came after every element of the
\* sorted list `done` in the input, goes in front of the first element it is
\* strictly before, and so behind every element it ties with.
SortInsert(self, done, x) ==
    LET ahead == {i \in 1..Len(done) : Before(self, x.key, done[i].key)}
        k     == IF ahead = {} THEN Len(done) + 1
                 ELSE CHOOSE i \in ahead : \A j \in ahead : i <= j
    IN  SubSeq(done, 1, k - 1) \o <<x>> \o SubSeq(done, k, Len(done))

\* The stable sort of rows that carry their key.
RECURSIVE SortKeyed(_, _)
SortKeyed(self, keyed) ==
    IF keyed = <<>> THEN <<>>
    ELSE SortInsert(self, SortKeyed(self, SubSeq(keyed, 1, Len(keyed) - 1)),
                    keyed[Len(keyed)])

\* The rows, each with the key list.sort computes for it (once per row).
RECURSIVE Keyed(_, _)
Keyed(self, rows) ==
    IF rows = <<>> THEN <<>>
    ELSE <<[key |-> _sort_key(self, Head(rows)), row |-> Head(rows)]>>
            \o Keyed(self, Tail(rows))

\* rows.sort(key=self._sort_key, reverse=(self.sort_dir == "desc")): the
\* sort is stable, and reverse=True keeps the input order of equal keys.
RECURSIVE Unkeyed(_)
Unkeyed(keyed) ==
    IF keyed = <<>> THEN <<>> ELSE <<Head(keyed).row>> \o Unkeyed(Tail(keyed))

SortRows(self, rows) == Unkeyed(SortKeyed(self, Keyed(self, rows)))

\* The `rows` of query_supplies before the page is cut: the records that
\* pass _matches_filters, sorted.
sorted_rows(self) ==
    SortRows(self, SelectSeq(self.supplies, LAMBDA s : _matches_filters(self, s)))

\* A query whose total is counted after the page is cut; C5 tells it from
\* query_supplies.
query_supplies_total_of_page(self) ==
    LET rows  == sorted_rows(self)
        start == self.page_index * self.page_size
        end   == start + self.page_size
    IN  [rows |-> PySlice(rows, start, end),
         total |-> Len(PySlice(rows, start, end))]

\* query_supplies(self): the page and the total
query_supplies(self) ==
    LET rows  == sorted_rows(self)
        start == self.page_index * self.page_size
        end   == start + self.page_size
    IN  [rows |-> PySlice(rows, start, end), total |-> Len(rows)]

\* A query that sorts self.supplies itself instead of a copy; C13 tells it
\* from query_supplies.
query_supplies_self_sorted_in_place(self) ==
    [self EXCEPT !.supplies = SortRows(self, self.supplies)]

\* query_supplies(self): self after the call.  rows is a new list (a list
\* comprehension), rows.sort sorts that list, and no attribute of self is
\* assigned.
query_supplies_self(self) == self

\* max(1, math.ceil(total / page_size)) of _go_page and _rebuild_page_buttons
page_count(self, n) == Max(1, Ceil(n, self.page_size))

-----------------------------------------------------------------------------
(* The state after construction: App.__init__ builds AppState and the      *)
(* screens and raises the login screen.                                    *)

NoBanner == [kind |-> "", msg |-> ""]

Init ==
    /\ supplies = SeedSupplies
    /\ next_id = FirstNextId
    /\ current_user = None
    /\ search_query = <<>>
    /\ sort_by = "name"
    /\ sort_dir = "asc"
    /\ filter_categories = {}
    /\ filter_units = {}
    /\ filter_color = <<>>
    /\ filter_tags = <<>>
    /\ page_size = PageSize
    /\ page_index = 0
    /\ screen = "login"
    /\ current_id = None
    /\ tree = <<>>
    /\ lbl_info = [shown |-> 0, total |-> 0]
    /\ banner = NoBanner
    /\ now = StartClock
    /\ op = [name |-> "init"]
    /\ ret = None
    /\ deleted_ids = {}
    /\ n_mut = 0

-----------------------------------------------------------------------------
(* Building blocks of the handlers.                                        *)

\* The AppState fields after a handler: those of the record st.
SetState(st) ==
    /\ supplies' = st.supplies
    /\ next_id' = st.next_id
    /\ current_user' = st.current_user
    /\ search_query' = st.search_query
    /\ sort_by' = st.sort_by
    /\ sort_dir' = st.sort_dir
    /\ filter_categories' = st.filter_categories
    /\ filter_units' = st.filter_units
    /\ filter_color' = st.filter_color
    /\ filter_tags' = st.filter_tags
    /\ page_size' = st.page_size
    /\ page_index' = st.page_index

\* the ActionID column of the rows
RECURSIVE RowIds(_)
RowIds(rows) ==
    IF rows = <<>> THEN <<>> ELSE <<Head(rows).id>> \o RowIds(Tail(rows))

\* InventoryScreen.refresh_table on the store st: the tree holds a row for each
\* record query_supplies returned and the info label their number and the total.
refresh_table(st) ==
    LET q == query_supplies(st)
    IN  /\ tree' = RowIds(q.rows)
        /\ lbl_info' = [shown |-> Len(q.rows), total |-> q.total]

\* App.show_inventory on the store st: _raise("inventory") and on_show.
show_inventory(st) ==
    /\ screen' = "inventory"
    /\ refresh_table(st)

\* App.show_banner / Banner.show
show_banner(kind, msg) == banner' = [kind |-> kind, msg |-> msg]

\* The ids delete_supply(supply_id) removes from the store.
Removed(self, supply_id) ==
    {self.supplies[i].id : i \in {j \in 1..Len(self.supplies) :
                                     self.supplies[j].id = supply_id}}

-----------------------------------------------------------------------------
(* The add and edit forms.  A form is the text of its widgets.             *)

Form(name, category, qty, unit, color, brand, tags, notes) ==
    [name |-> name, category |-> category, qty |-> qty, unit |-> unit,
     color |-> color, brand |-> brand, tags |-> tags, notes |-> notes]

IsDigit(c) == c >= 48 /\ c <= 57

\* the number a string of digits denotes
RECURSIVE DigitsValue(_)
DigitsValue(ds) ==
    IF ds = <<>> THEN 0
    ELSE 10 * DigitsValue(SubSeq(ds, 1, Len(ds) - 1)) + (ds[Len(ds)] - 48)

\* float(text) for the decimal literals [sign] digits [. digits] with at most
\* two decimals, in hundredths, and for [sign] "nan" in any case: ok is FALSE
\* where float raises ValueError.  (float strips surrounding whitespace
\* itself.  It also reads exponents, "inf" and digits grouped by "_", which
\* are not among the inputs.)
ParseFloat(text) ==
    LET s      == Strip(text)
        signed == s # <<>> /\ s[1] \in {45, 43}
        body   == IF signed THEN Tail(s) ELSE s
        dots   == {i \in 1..Len(body) : body[i] = 46}
        dot    == IF dots = {} THEN Len(body) + 1 ELSE CHOOSE i \in dots : TRUE
        int    == SubSeq(body, 1, dot - 1)
        frac   == SubSeq(body, dot + 1, Len(body))
        ok     == /\ Cardinality(dots) <= 1
                  /\ \A i \in 1..Len(body) : IsDigit(body[i]) \/ body[i] = 46
                  /\ Len(int) + Len(frac) >= 1
                  /\ Len(frac) <= 2
        cents  == IF Len(frac) = 0 THEN 0
                  ELSE IF Len(frac) = 1 THEN 10 * DigitsValue(frac)
                  ELSE DigitsValue(frac)
        mag    == 100 * DigitsValue(int) + cents
    IN  IF Lower(body) = <<110,97,110>> (* nan *) THEN [ok |-> TRUE, value |-> NaN]
        ELSE IF ~ok THEN [ok |-> FALSE, value |-> 0]
        ELSE [ok |-> TRUE, value |-> IF signed /\ s[1] = 45 THEN 0 - mag ELSE mag]

\* DetailScreen._validate and AddManualScreen._validate (the same code)
_validate(f) ==
    IF Strip(f.name) = <<>> THEN [ok |-> FALSE, msg |-> "Name is required."]
    ELSE IF Strip(f.category) = <<>> THEN [ok |-> FALSE, msg |-> "Category is required."]
    ELSE IF Strip(f.unit) = <<>> THEN [ok |-> FALSE, msg |-> "Unit is required."]
    ELSE IF ~ParseFloat(Strip(f.qty)).ok
              \/ FloatLess(ParseFloat(Strip(f.qty)).value, 0)
         THEN [ok |-> FALSE, msg |-> "Quantity must be a number >= 0."]
    ELSE [ok |-> TRUE, msg |-> ""]

\* [t.strip() for t in text.split(",") if t.strip()]
ParseTags(text) == StripNonEmpty(Split(text, 44))

\* The Supply that AddManualScreen._save builds from the form at time t
\* (id=0; updated defaults to datetime.now()).
NewSupply(f, t) ==
    Supply(0, Strip(f.name), Strip(f.category), ParseFloat(Strip(f.qty)).value,
           Strip(f.unit), Strip(f.color), Strip(f.brand), ParseTags(f.tags),
           Strip(f.notes), t)

\* The default quantity AddLookupScreen._save reads: the entry, or "1" when it
\* is empty.
LookupQty(f) == IF Strip(f.qty) = <<>> THEN <<49>> (* 1 *) ELSE Strip(f.qty)

\* AddLookupScreen._save's own validation
LookupValid(f) ==
    IF Strip(f.name) = <<>> \/ Strip(f.category) = <<>> \/ Strip(f.unit) = <<>>
    THEN [ok |-> FALSE,
          msg |-> "Please complete Name, Category, and Unit (or switch to Manual Add)."]
    ELSE IF ~ParseFloat(LookupQty(f)).ok \/ FloatLess(ParseFloat(LookupQty(f)).value, 0)
    THEN [ok |-> FALSE, msg |-> "Default Qty must be a number >= 0."]
    ELSE [ok |-> TRUE, msg |-> ""]

\* The Supply that AddLookupScreen._save builds from its six fields at time
\* t: tags and notes keep the dataclass defaults.
LookupSupply(f, t) ==
    Supply(0, Strip(f.name), Strip(f.category), ParseFloat(LookupQty(f)).value,
           Strip(f.unit), Strip(f.color), Strip(f.brand), <<>>, <<>>, t)

\* DetailScreen._save, "# apply": the record s with the form's fields.
ApplyForm(s, f) ==
    [s EXCEPT !.name = Strip(f.name),
              !.category = Strip(f.category),
              !.quantity = ParseFloat(Strip(f.qty)).value,
              !.unit = Strip(f.unit),
              !.color = Strip(f.color),
              !.brand = Strip(f.brand),
              !.tags = ParseTags(f.tags),
              !.notes = Strip(f.notes)]

-----------------------------------------------------------------------------
(* Inputs: what the user types and picks.                                  *)

\* "Wool Yarn": no "cotton" anywhere; its quantity ties with two seed records.
FormWool ==
    Form(<<87,111,111,108,32,89,97,114,110>> (* Wool Yarn *), <<89,97,114,110>> (* Yarn *), <<53>> (* 5 *), <<115,107,101,105,110>> (* skein *), <<>> (* "" *), <<>> (* "" *), <<>> (* "" *), <<>> (* "" *))

\* a second "Cotton Batting" in other case and with padding: its name key
\* and its quantity tie with seed record 5.
FormCotton ==
    Form(<<32,99,111,116,116,111,110,32,66,65,84,84,73,78,71,32>> (*  cotton BATTING  *), <<70,97,98,114,105,99>> (* Fabric *), <<49,46,48>> (* 1.0 *), <<121,100>> (* yd *), <<66,108,117,101,32>> (* Blue  *), <<75,111,110,97>> (* Kona *),
         <<67,111,116,116,111,110,44,32,44,113,117,105,108,116>> (* Cotton, ,quilt *), <<32,115,112,97,114,101,32>> (*  spare  *))

\* forms _validate rejects
FormNoName == [FormWool EXCEPT !.name = <<32,32>> (*    *)]
FormNoCategory == [FormWool EXCEPT !.category = <<>> (* "" *)]
FormNegative == [FormWool EXCEPT !.qty = <<45,49>> (* -1 *)]
FormNotANumber == [FormWool EXCEPT !.qty = <<97,98,99>> (* abc *)]
FormNoUnit == [FormWool EXCEPT !.unit = <<>> (* "" *)]

\* "nan" in the quantity entry: float reads it, and nan < 0 is False
FormNaN == [FormWool EXCEPT !.qty = <<32,78,97,78>> (*  NaN *)]

\* the lookup form left with its quantity entry empty
FormNoQty == [FormCotton EXCEPT !.qty = <<>> (* "" *)]

ValidForms == {FormWool, FormCotton}
FormInputs ==
    ValidForms \cup {FormNoName, FormNoCategory, FormNoUnit, FormNegative,
                     FormNotANumber, FormNaN, FormNoQty}

\* search texts typed into the search entry
SearchInputs == {<<>> (* "" *), <<32,67,111,116,116,111,110,32>> (*  Cotton  *), <<87,79,79,76>> (* WOOL *), <<102,97,98,114,105,99,32,99,111,116,116,111,110>> (* fabric cotton *)}

Cat(i) == CATEGORIES[i]
Unit(i) == UNITS[i]

\* what the Sort & Filter dialog holds when Apply is pressed
Dialog(sb, sd, cats, units, color, tags) ==
    [sort_by |-> sb, sort_dir |-> sd, categories |-> cats, units |-> units,
     color |-> color, tags |-> tags]

DialogInputs ==
    { Dialog("name", "asc", {}, {}, <<>> (* "" *), <<>> (* "" *)),
      Dialog("quantity", "desc", {}, {}, <<>> (* "" *), <<>> (* "" *)),
      Dialog("updated", "asc", {}, {}, <<>> (* "" *), <<>> (* "" *)),
      Dialog("name", "desc", {Cat(2), Cat(3), Cat(4)}, {}, <<>> (* "" *), <<>> (* "" *)),
      Dialog("quantity", "asc", {}, {Unit(4), Unit(6)}, <<32,87,72,73,84,69>> (*  WHITE *), <<>> (* "" *)),
      Dialog("updated", "desc", {Cat(2)}, {}, <<>> (* "" *), <<81,117,105,108,116>> (* Quilt *)) }

\* user names and passwords typed into the login form
LoginInputs == {<<>> (* "" *), <<32>> (*   *), <<97,110,97>> (* ana *)}

\* ids a caller passes to the store's methods directly
IdInputs == 3..5

\* forms submitted to DetailScreen._save when it is called directly
StoreFormInputs == {FormWool, FormNoName}

\* what the user of Spec types and picks
UiSearchInputs == {<<>> (* "" *), <<32,67,111,116,116,111,110,32>> (*  Cotton  *)}

UiDialogInputs ==
    { Dialog("name", "asc", {}, {}, <<>> (* "" *), <<>> (* "" *)),
      Dialog("quantity", "desc", {Cat(2), Cat(3), Cat(4)}, {}, <<>> (* "" *), <<>> (* "" *)) }

\* the forms of SpecForms: two that pass, one wrong in each field, and the
\* quantity entry left empty
FormsInputs ==
    {FormWool, FormNaN, FormNoName, FormNoCategory, FormNoUnit, FormNegative,
     FormNotANumber, FormNoQty}

UiFormInputs == {FormWool, FormNoName}

\* the row the user double-clicks: the first of the page
UiRowInputs(t) == {r \in {1} : r \in 1..Len(t)}

-----------------------------------------------------------------------------
(* The handlers.  Each is the whole handler: the store change, the banner, *)
(* the navigation and the table refresh it ends with.                      *)

app_vars == <<supplies, next_id, current_user, search_query, sort_by, sort_dir,
              filter_categories, filter_units, filter_color, filter_tags,
              page_size, page_index>>

\* A _login that asks for the username only; C21 tells it from _login.
_login_without_password(u, p) ==
    /\ op' = [name |-> "_login", u |-> u, p |-> p]
    /\ IF Strip(u) = <<>>
       THEN /\ show_banner("warn", "Please enter both username and password.")
            /\ UNCHANGED <<app_vars, screen, tree, lbl_info>>
       ELSE LET st == [AppState EXCEPT !.current_user = Some(Strip(u))]
            IN  /\ SetState(st)
                /\ show_inventory(st)
                /\ show_banner("success", "Welcome, {u}!")
    /\ UNCHANGED <<current_id, now, ret, deleted_ids, n_mut>>

\* LoginScreen._login with the two entries holding u and p
_login(u, p) ==
    /\ op' = [name |-> "_login", u |-> u, p |-> p]
    /\ IF Strip(u) = <<>> \/ Strip(p) = <<>>
       THEN /\ show_banner("warn", "Please enter both username and password.")
            /\ UNCHANGED <<app_vars, screen, tree, lbl_info>>
       ELSE LET st == [AppState EXCEPT !.current_user = Some(Strip(u))]
            IN  /\ SetState(st)
                /\ show_inventory(st)
                /\ show_banner("success", "Welcome, {u}!")
    /\ UNCHANGED <<current_id, now, ret, deleted_ids, n_mut>>

\* A logout that also goes back to the first page with the search cleared;
\* C22 tells it from _do_logout.
_do_logout_resets_view ==
    /\ op' = [name |-> "_do_logout"]
    /\ SetState([AppState EXCEPT !.current_user = None, !.search_query = <<>>,
                                 !.page_index = 0])
    /\ screen' = "login"
    /\ show_banner("info", "Logged out.")
    /\ UNCHANGED <<current_id, tree, lbl_info, now, ret, deleted_ids, n_mut>>

\* App._do_logout (the Logout button of the confirm_logout dialog)
_do_logout ==
    /\ op' = [name |-> "_do_logout"]
    /\ SetState([AppState EXCEPT !.current_user = None])
    /\ screen' = "login"
    /\ show_banner("info", "Logged out.")
    /\ UNCHANGED <<current_id, tree, lbl_info, now, ret, deleted_ids, n_mut>>

\* An _apply_search that stays on the page it is on; C20 tells it from
\* _apply_search.
_apply_search_keeps_page(text) ==
    LET st == [AppState EXCEPT !.search_query = Strip(text)]
    IN  /\ op' = [name |-> "_apply_search"]
        /\ SetState(st)
        /\ refresh_table(st)
        /\ UNCHANGED <<screen, current_id, banner, now, ret, deleted_ids, n_mut>>

\* InventoryScreen._apply_search with the search entry holding text
_apply_search(text) ==
    LET st == [AppState EXCEPT !.search_query = Strip(text), !.page_index = 0]
    IN  /\ op' = [name |-> "_apply_search"]
        /\ SetState(st)
        /\ refresh_table(st)
        /\ UNCHANGED <<screen, current_id, banner, now, ret, deleted_ids, n_mut>>

\* SortFilterDialog._apply with the dialog holding d, and the
\* InventoryScreen._on_filters_applied it calls
_apply(d) ==
    LET st == [AppState EXCEPT !.sort_by = d.sort_by,
                               !.sort_dir = d.sort_dir,
                               !.filter_categories = d.categories,
                               !.filter_units = d.units,
                               !.filter_color = Strip(d.color),
                               !.filter_tags = Strip(d.tags),
                               !.page_index = 0]
    IN  /\ op' = [name |-> "_apply"]
        /\ SetState(st)
        /\ refresh_table(st)
        /\ show_banner("info",
              IF st.filter_categories # {} \/ st.filter_color # <<>>
                    \/ st.filter_tags # <<>>
              THEN "Filters applied: " ELSE "Sort updated.")
        /\ UNCHANGED <<screen, current_id, now, ret, deleted_ids, n_mut>>

\* A new_index with no upper limit; C19 tells it from that of _go_page.
go_page_index_unclamped(self, delta) == Max(0, self.page_index + delta)

\* The page index _go_page(delta) moves to.
go_page_index(self, delta) ==
    Max(0, Min(self.page_index + delta,
               page_count(self, query_supplies(self).total) - 1))

\* InventoryScreen._go_page(delta); op keeps the page_index it found
_go_page(delta) ==
    LET st == [AppState EXCEPT !.page_index = go_page_index(AppState, delta)]
    IN  /\ op' = [name |-> "_go_page", delta |-> delta, was |-> page_index]
        /\ IF st.page_index # page_index
           THEN SetState(st) /\ refresh_table(st)
           ELSE UNCHANGED <<app_vars, tree, lbl_info>>
        /\ UNCHANGED <<screen, current_id, banner, now, ret, deleted_ids, n_mut>>

\* InventoryScreen._set_page(i)
_set_page(i) ==
    LET st == [AppState EXCEPT !.page_index = i]
    IN  /\ op' = [name |-> "_set_page"]
        /\ IF i # page_index
           THEN SetState(st) /\ refresh_table(st)
           ELSE UNCHANGED <<app_vars, tree, lbl_info>>
        /\ UNCHANGED <<screen, current_id, banner, now, ret, deleted_ids, n_mut>>

\* The page buttons _rebuild_page_buttons(total) builds: range(start, end).
page_buttons(self, n) ==
    LET start0 == Max(0, self.page_index - 3)
        end    == Min(page_count(self, n), start0 + 7)
        start  == Max(0, end - 7)
    IN  start..(end - 1)

\* DetailScreen.load(supply_id) up to the screen it leaves raised: the
\* record found, _current_id is its id (the rest fills the form's widgets,
\* which the user then edits); not found, a banner and show_inventory.
load_effects(supply_id) ==
    IF find_by_id(AppState, supply_id) # None
    THEN /\ current_id' = Some(The(find_by_id(AppState, supply_id)).id)
         /\ UNCHANGED <<banner, tree, lbl_info>>
    ELSE /\ show_banner("error", "Item not found.")
         /\ refresh_table(AppState)
         /\ UNCHANGED current_id

\* DetailScreen.load(supply_id)
load(supply_id) ==
    /\ op' = [name |-> "load"]
    /\ load_effects(supply_id)
    /\ screen' = IF find_by_id(AppState, supply_id) # None THEN screen
                 ELSE "inventory"
    /\ UNCHANGED <<app_vars, now, ret, deleted_ids, n_mut>>

\* App.show_detail(supply_id): load, then _raise("detail") in either case
show_detail(supply_id) ==
    /\ op' = [name |-> "show_detail"]
    /\ load_effects(supply_id)
    /\ screen' = "detail"
    /\ UNCHANGED <<app_vars, now, ret, deleted_ids, n_mut>>

\* InventoryScreen._add_supply: App.show_add_supply
_add_supply ==
    /\ op' = [name |-> "_add_supply"]
    /\ screen' = "add_manual"
    /\ UNCHANGED <<app_vars, current_id, tree, lbl_info, banner, now, ret,
                   deleted_ids, n_mut>>

\* The store after the "# apply" part of DetailScreen._save and its
\* update_supply call, for the record at position i, at time t.
save_store(self, i, f, t) ==
    update_supply([self EXCEPT !.supplies[i] = ApplyForm(self.supplies[i], f)], i, t)

\* A save that stores the form as a new record when the edited one is gone;
\* C9 tells it from DetailScreen._save.
DetailScreen_save_upsert(f) ==
    /\ op' = [name |-> "DetailScreen._save", f |-> f]
    /\ IF current_id = None
       THEN UNCHANGED <<app_vars, screen, tree, lbl_info, banner, n_mut>>
       ELSE IF ~_validate(f).ok
       THEN /\ show_banner("warn", _validate(f).msg)
            /\ UNCHANGED <<app_vars, screen, tree, lbl_info, n_mut>>
       ELSE LET i  == find_index(AppState, The(current_id))
                st == IF i = 0 THEN add_supply(AppState, NewSupply(f, now), now)
                      ELSE save_store(AppState, i, f, now)
            IN  /\ SetState(st)
                /\ show_banner("success", "Saved successfully.")
                /\ show_inventory(st)
                /\ n_mut' = n_mut + 1
    /\ UNCHANGED <<current_id, now, ret, deleted_ids>>

\* DetailScreen._save with the form holding f
DetailScreen_save(f) ==
    /\ op' = [name |-> "DetailScreen._save", f |-> f]
    /\ IF current_id = None
       THEN UNCHANGED <<app_vars, screen, tree, lbl_info, banner, n_mut>>
       ELSE IF ~_validate(f).ok
       THEN /\ show_banner("warn", _validate(f).msg)
            /\ UNCHANGED <<app_vars, screen, tree, lbl_info, n_mut>>
       ELSE IF find_by_id(AppState, The(current_id)) = None
       THEN /\ show_banner("error", "Item not found.")
            /\ UNCHANGED <<app_vars, screen, tree, lbl_info, n_mut>>
       ELSE LET st == save_store(AppState, find_index(AppState, The(current_id)), f, now)
            IN  /\ SetState(st)
                /\ show_banner("success", "Saved successfully.")
                /\ show_inventory(st)
                /\ n_mut' = n_mut + 1
    /\ UNCHANGED <<current_id, now, ret, deleted_ids>>

\* DetailScreen._delete, the askyesno dialog answered yes
DetailScreen_delete ==
    /\ op' = [name |-> "DetailScreen._delete"]
    /\ IF current_id = None
       THEN UNCHANGED <<app_vars, screen, tree, lbl_info, banner, deleted_ids, n_mut>>
       ELSE LET st == delete_supply(AppState, The(current_id))
            IN  /\ SetState(st)
                /\ deleted_ids' = deleted_ids \cup Removed(AppState, The(current_id))
                /\ show_banner("info", "Item deleted.")
                /\ show_inventory(st)
                /\ n_mut' = n_mut + 1
    /\ UNCHANGED <<current_id, now, ret>>

\* the Cancel and Back buttons of the detail and add screens:
\* App.show_inventory
cancel ==
    /\ op' = [name |-> "cancel"]
    /\ show_inventory(AppState)
    /\ UNCHANGED <<app_vars, current_id, banner, now, ret, deleted_ids, n_mut>>

\* AddManualScreen._save with the form holding f
AddManualScreen_save(f) ==
    /\ op' = [name |-> "AddManualScreen._save", f |-> f]
    /\ IF ~_validate(f).ok
       THEN /\ show_banner("warn", _validate(f).msg)
            /\ UNCHANGED <<app_vars, screen, tree, lbl_info, ret, n_mut>>
       ELSE LET st == add_supply(AppState, NewSupply(f, now), now)
            IN  /\ SetState(st)
                /\ ret' = Some(add_supply_record(AppState, NewSupply(f, now), now))
                /\ show_banner("success", "Item created.")
                /\ show_inventory(st)
                /\ n_mut' = n_mut + 1
    /\ UNCHANGED <<current_id, now, deleted_ids>>

\* App.show_add_lookup
show_add_lookup ==
    /\ op' = [name |-> "show_add_lookup"]
    /\ screen' = "add_lookup"
    /\ UNCHANGED <<app_vars, current_id, tree, lbl_info, banner, now, ret,
                   deleted_ids, n_mut>>

\* AddLookupScreen._save with the result fields holding f
AddLookupScreen_save(f) ==
    /\ op' = [name |-> "AddLookupScreen._save", f |-> f]
    /\ IF ~LookupValid(f).ok
       THEN /\ show_banner("warn", LookupValid(f).msg)
            /\ UNCHANGED <<app_vars, screen, tree, lbl_info, ret, n_mut>>
       ELSE LET st == add_supply(AppState, LookupSupply(f, now), now)
            IN  /\ SetState(st)
                /\ ret' = Some(add_supply_record(AppState, LookupSupply(f, now), now))
                /\ show_banner("success", "Item created.")
                /\ show_inventory(st)
                /\ n_mut' = n_mut + 1
    /\ UNCHANGED <<current_id, now, deleted_ids>>

\* time passes: datetime.now() never goes back
Tick ==
    /\ now < StartClock + MaxTicks
    /\ now' = now + 1
    /\ UNCHANGED <<app_vars, screen, current_id, tree, lbl_info, banner, op,
                   ret, deleted_ids, n_mut>>

\* AppState.add_supply(s) called directly, s built from the form f
CallAdd(f) ==
    LET s  == NewSupply(f, now)
        st == add_supply(AppState, s, now)
    IN  /\ op' = [name |-> "add_supply", s |-> s]
        /\ SetState(st)
        /\ ret' = Some(add_supply_record(AppState, s, now))
        /\ n_mut' = n_mut + 1
        /\ UNCHANGED <<screen, current_id, tree, lbl_info, banner, now, deleted_ids>>

\* AppState.query_supplies() called directly
CallQuery ==
    /\ op' = [name |-> "query_supplies"]
    /\ SetState(query_supplies_self(AppState))
    /\ ret' = Some(query_supplies(AppState))
    /\ UNCHANGED <<screen, current_id, tree, lbl_info, banner, now, deleted_ids,
                   n_mut>>

\* AppState.delete_supply(supply_id) called directly
CallDelete(supply_id) ==
    LET st == delete_supply(AppState, supply_id)
    IN  /\ op' = [name |-> "delete_supply", id |-> supply_id]
        /\ SetState(st)
        /\ deleted_ids' = deleted_ids \cup Removed(AppState, supply_id)
        /\ n_mut' = n_mut + 1
        /\ UNCHANGED <<screen, current_id, tree, lbl_info, banner, now, ret>>

-----------------------------------------------------------------------------
(* Spec: the application as its user drives it.  A handler runs when its   *)
(* widget is on the raised screen and enabled.                             *)

Login == \E u \in LoginInputs, p \in LoginInputs : screen = "login" /\ _login(u, p)

Logout == screen = "inventory" /\ _do_logout

Search == \E text \in UiSearchInputs : screen = "inventory" /\ _apply_search(text)

SortFilter == \E d \in UiDialogInputs : screen = "inventory" /\ _apply(d)

\* Prev is enabled when cur > 0
Prev == screen = "inventory" /\ page_index > 0 /\ _go_page(-1)

\* Next > is enabled when cur < page_count - 1
NextPage ==
    /\ screen = "inventory"
    /\ page_index < page_count(AppState, lbl_info.total) - 1
    /\ _go_page(1)

\* a page button; the one of the current page is disabled
PageButton ==
    \E i \in page_buttons(AppState, lbl_info.total) :
        screen = "inventory" /\ i # page_index /\ _set_page(i)

\* a double click on a row of the tree: _on_double_click
OpenRow ==
    \E r \in UiRowInputs(tree) : screen = "inventory" /\ show_detail(tree[r])

AddButton == screen = "inventory" /\ _add_supply

SaveDetail ==
    \E f \in UiFormInputs :
        screen = "detail" /\ n_mut < MaxUiMutations /\ DetailScreen_save(f)

DeleteDetail == screen = "detail" /\ n_mut < MaxUiMutations /\ DetailScreen_delete

Cancel == screen \in {"detail", "add_manual"} /\ cancel

SaveAdd ==
    \E f \in UiFormInputs :
        screen = "add_manual" /\ n_mut < MaxUiMutations /\ AddManualScreen_save(f)

Next ==
    \/ Login
    \/ Logout
    \/ Search
    \/ SortFilter
    \/ Prev
    \/ NextPage
    \/ PageButton
    \/ OpenRow
    \/ AddButton
    \/ SaveDetail
    \/ DeleteDetail
    \/ Cancel
    \/ SaveAdd
    \/ Tick

Spec == Init /\ [][Next]_vars

-----------------------------------------------------------------------------
(* SpecStore: the store's methods and the detail screen's load and _save   *)
(* called in any order with any argument.                                  *)

StoreAdd == \E f \in ValidForms : n_mut < MaxMutations /\ CallAdd(f)

StoreDelete == \E k \in IdInputs : n_mut < MaxMutations /\ CallDelete(k)

StoreLoad == \E k \in IdInputs : load(k)

StoreSave == \E f \in StoreFormInputs : n_mut < MaxMutations /\ DetailScreen_save(f)

NextStore ==
    \/ StoreAdd
    \/ StoreDelete
    \/ StoreLoad
    \/ StoreSave
    \/ Tick

SpecStore == Init /\ [][NextStore]_vars

-----------------------------------------------------------------------------
(* SpecQuery: the inventory screen's view handlers called in any order     *)
(* with any argument, over the seed records and the records added.         *)

QueryAdd == \E f \in ValidForms : n_mut < MaxAdds /\ AddManualScreen_save(f)

QuerySearch == \E text \in SearchInputs : _apply_search(text)

QuerySortFilter == \E d \in DialogInputs : _apply(d)

QuerySetPage == \E i \in 0..MaxPageIndex : _set_page(i)

QueryGoPage == \E delta \in {-1, 1} : _go_page(delta)

NextQuery ==
    \/ QueryAdd
    \/ QuerySearch
    \/ QuerySortFilter
    \/ QuerySetPage
    \/ QueryGoPage

SpecQuery == Init /\ [][NextQuery]_vars

-----------------------------------------------------------------------------
(* SpecRead: query_supplies called directly, in every view the search      *)
(* entry, the Sort & Filter dialog and the page buttons can set over the   *)
(* seed records.                                                           *)

ReadQuery == CallQuery

NextRead ==
    \/ ReadQuery
    \/ QuerySearch
    \/ QuerySortFilter
    \/ QuerySetPage

SpecRead == Init /\ [][NextRead]_vars

-----------------------------------------------------------------------------
(* SpecForms: the three forms, each opened by the App method that raises   *)
(* it and submitted with any of the drafts, over the default view.         *)

FormsOpenDetail == \E k \in IdInputs : show_detail(k)

FormsOpenAdd == _add_supply

FormsOpenLookup == show_add_lookup

FormsSaveDetail ==
    \E f \in FormsInputs :
        screen = "detail" /\ n_mut < MaxFormMutations /\ DetailScreen_save(f)

FormsDelete == screen = "detail" /\ n_mut < MaxFormMutations /\ DetailScreen_delete

FormsSaveAdd ==
    \E f \in FormsInputs :
        screen = "add_manual" /\ n_mut < MaxFormMutations /\ AddManualScreen_save(f)

FormsSaveLookup ==
    \E f \in FormsInputs :
        screen = "add_lookup" /\ n_mut < MaxFormMutations /\ AddLookupScreen_save(f)

FormsCancel == screen \in {"detail", "add_manual", "add_lookup"} /\ cancel

NextForms ==
    \/ FormsOpenDetail
    \/ FormsOpenAdd
    \/ FormsOpenLookup
    \/ FormsSaveDetail
    \/ FormsDelete
    \/ FormsSaveAdd
    \/ FormsSaveLookup
    \/ FormsCancel
    \/ Tick

SpecForms == Init /\ [][NextForms]_vars
-----------------------------------------------------------------------------
(* The properties of the store, over SpecStore.                            *)

\* the positions of the records that hold the id k
Holders(k) == {i \in 1..Len(supplies) : supplies[i].id = k}

\* the collection without the record at position i
Without(i) == SubSeq(supplies, 1, i - 1) \o SubSeq(supplies, i + 1, Len(supplies))

\* C1: in every state reached by add_supply, update_supply and delete_supply
\* calls from the seeded store, no two records of supplies have the same id.
C1_ids_unique ==
    \A i, j \in 1..Len(supplies) : supplies[i].id = supplies[j].id => i = j

\* C2: after r = add_supply(draft), find_by_id(r.id) returns the record just
\* created: the one add_supply returned, whose name, category, quantity,
\* unit, color, brand, tags and notes are the draft's.
C2_add_then_find ==
    op.name = "add_supply" =>
        LET r     == The(ret)
            found == find_by_id(AppState, r.id)
        IN  /\ found = Some(r)
            /\ \A fld \in {"name", "category", "quantity", "unit", "color",
                           "brand", "tags", "notes"} :
                   The(found)[fld] = op.s[fld]

\* C3: an id that belonged to a record delete_supply removed is not assigned
\* by a later add_supply.
C3_deleted_id_not_reused ==
    op.name = "add_supply" => The(ret).id \notin deleted_ids

\* C4: delete_supply(id) removes the record with that id and no other: with
\* such a record present the collection loses exactly that one record, the
\* others keeping their content and order; with none, it is unchanged.
C4_delete_removes_one ==
    [][ (op'.name = "delete_supply" /\ n_mut' = n_mut + 1) =>
            IF Holders(op'.id) = {} THEN supplies' = supplies
            ELSE \E i \in Holders(op'.id) : supplies' = Without(i) ]_vars

-----------------------------------------------------------------------------
(* The properties of the query, over SpecQuery.                            *)

\* the number of records of self.supplies that pass _matches_filters
MatchCount(self) ==
    Cardinality({i \in 1..Len(self.supplies) :
                    _matches_filters(self, self.supplies[i])})

\* C5: the total query_supplies returns is the number of records that pass
\* _matches_filters, whatever the page index, page size and sort settings.
C5_total_is_match_count ==
    \A ps \in {1, page_size} :
        query_supplies([AppState EXCEPT !.page_size = ps]).total
            = MatchCount(AppState)

\* filters are on, the matches fill more than a page, and a later page is shown
C5_witness ==
    /\ page_index > 0
    /\ lbl_info.shown > 0
    /\ lbl_info.total > page_size
    /\ lbl_info.total < Len(supplies)
    /\ lbl_info.total = query_supplies(AppState).total

\* C6: the page is the slice [page_index*page_size, page_index*page_size +
\* page_size) of the filtered and sorted sequence; its length is
\* min(page_size, max(0, total - page_index*page_size)), so a page index
\* beyond the last page gives an empty page with the exact total.
C6_page_is_slice ==
    LET q     == query_supplies(AppState)
        all   == sorted_rows(AppState)
        start == page_index * page_size
        n     == Min(page_size, Max(0, q.total - start))
    IN  /\ page_index >= 0 /\ page_size >= 1
        /\ q.total = Len(all)
        /\ Len(q.rows) = n
        /\ \A k \in 1..n : q.rows[k] = all[start + k]
        /\ (start >= q.total) => q.rows = <<>>

\* a page index beyond the last page was set while records match
C6_witness ==
    /\ op.name = "_set_page"
    /\ page_index * page_size >= lbl_info.total
    /\ lbl_info.total > 0
    /\ lbl_info.shown = 0
    /\ tree = <<>>

\* the position in supplies of the record r
PositionOf(r) == CHOOSE i \in 1..Len(supplies) : supplies[i] = r

\* C7: the sort of query_supplies is stable in both directions: matching
\* records with equal sort keys come in the order they have in supplies,
\* under sort_dir = "asc" and under sort_dir = "desc".
C7_sort_stable ==
    LET all == sorted_rows(AppState)
    IN  \A a, b \in 1..Len(all) :
            (a < b /\ _sort_key(AppState, all[a]) = _sort_key(AppState, all[b]))
                => PositionOf(all[a]) < PositionOf(all[b])

\* a descending sort whose result holds two records with equal keys
C7_witness ==
    /\ op.name = "_apply"
    /\ sort_dir = "desc"
    /\ LET all == sorted_rows(AppState)
       IN  \E a \in 1..(Len(all) - 1) :
               _sort_key(AppState, all[a]) = _sort_key(AppState, all[a + 1])

\* the text the search looks in: name, category and the tags joined by
\* spaces, lower-cased
SearchText(s) ==
    Lower(s.name \o <<32>> \o s.category \o <<32>> \o Join(<<32>>, s.tags))

\* the view with every filter but the search cleared
SearchOnly(self) ==
    [self EXCEPT !.filter_categories = {}, !.filter_units = {},
                 !.filter_color = <<>>, !.filter_tags = <<>>]

\* C10: a record passes the search filter iff the trimmed, lower-cased
\* search_query is empty or a substring of the lower-cased text made of the
\* record's name, category and space-joined tags.
C10_search_is_substring ==
    LET q == Lower(Strip(search_query))
    IN  \A i \in 1..Len(supplies) :
            _matches_filters(SearchOnly(AppState), supplies[i])
                <=> (q = <<>> \/ Contains(SearchText(supplies[i]), q))

\* an upper-case query found a record by a tag alone and left out a record
\* that has it nowhere
C10_witness ==
    /\ search_query = <<87,79,79,76>> (* WOOL *)
    /\ \E i \in 1..Len(supplies) :
           /\ supplies[i].id \in {tree[r] : r \in 1..Len(tree)}
           /\ ~Contains(Lower(supplies[i].name \o <<32>> \o supplies[i].category),
                        <<119,111,111,108>> (* wool *))
           /\ \E t \in 1..Len(supplies[i].tags) : supplies[i].tags[t] = <<119,111,111,108>> (* wool *)
    /\ \E i \in 1..Len(supplies) :
           /\ ~Contains(SearchText(supplies[i]), <<119,111,111,108>> (* wool *))
           /\ supplies[i].id \notin {tree[r] : r \in 1..Len(tree)}

-----------------------------------------------------------------------------
(* The properties of the application, over Spec.                           *)

\* C8: page_index is within [0, max(1, ceil(total/page_size)) - 1] in every
\* reachable state of the application.
C8_page_index_in_range ==
    page_index \in 0..(page_count(AppState, query_supplies(AppState).total) - 1)

-----------------------------------------------------------------------------
(* The properties of query_supplies as a function, over SpecRead.          *)

\* the five checks of the filter, each on its own
SearchPasses(self, s) ==
    LET q == Lower(Strip(self.search_query))
    IN  q = <<>> \/ Contains(SearchText(s), q)

CategoryPasses(self, s) ==
    self.filter_categories = {} \/ s.category \in self.filter_categories

UnitPasses(self, s) ==
    self.filter_units = {} \/ s.unit \in self.filter_units

ColorPasses(self, s) ==
    self.filter_color = <<>> \/ Contains(Lower(s.color), Lower(self.filter_color))

TagsPass(self, s) ==
    self.filter_tags = <<>>
        \/ Contains(Lower(Join(<<32>>, s.tags)), Lower(self.filter_tags))

\* the records of the rows, as a set
RowSet(rows) == {rows[i] : i \in 1..Len(rows)}

\* C11: a record is in the filtered set iff it passes every active filter
\* (search, categories, units, color, tags) at once; an empty category or
\* unit set restricts nothing, and with every filter empty every record
\* matches.
C11_filters_conjoin ==
    /\ \A i \in 1..Len(supplies) :
           (supplies[i] \in RowSet(sorted_rows(AppState)))
               <=> /\ SearchPasses(AppState, supplies[i])
                   /\ CategoryPasses(AppState, supplies[i])
                   /\ UnitPasses(AppState, supplies[i])
                   /\ ColorPasses(AppState, supplies[i])
                   /\ TagsPass(AppState, supplies[i])
    /\ (/\ search_query = <<>> /\ filter_categories = {} /\ filter_units = {}
        /\ filter_color = <<>> /\ filter_tags = <<>>)
           => query_supplies(AppState).total = Len(supplies)

\* a unit filter and a color filter are on together: a record is shown, one
\* that has the color but not the unit is left out, and so is one that has
\* the unit but not the color
C11_witness ==
    /\ filter_units # {} /\ filter_color # <<>>
    /\ lbl_info.total > 0
    /\ \E i \in 1..Len(supplies) :
           /\ ColorPasses(AppState, supplies[i])
           /\ supplies[i].unit \notin filter_units
           /\ supplies[i].id \notin RowSet(tree)
    /\ \E i \in 1..Len(supplies) :
           /\ supplies[i].unit \in filter_units
           /\ ~ColorPasses(AppState, supplies[i])
           /\ supplies[i].id \notin RowSet(tree)

\* the view with every filter but the color cleared
ColorOnly(self) ==
    [self EXCEPT !.search_query = <<>>, !.filter_categories = {},
                 !.filter_units = {}, !.filter_tags = <<>>]

\* C12: with filter_color non-empty a record passes the color check iff its
\* lower-cased color contains the lower-cased filter_color, and a record
\* with an empty color is left out whatever the other filters are.
C12_color_is_substring ==
    filter_color # <<>> =>
        \A i \in 1..Len(supplies) :
            /\ _matches_filters(ColorOnly(AppState), supplies[i])
                   <=> Contains(Lower(supplies[i].color), Lower(filter_color))
            /\ supplies[i].color = <<>>
                   => /\ ~_matches_filters(AppState, supplies[i])
                      /\ ~_matches_filters(ColorOnly(AppState), supplies[i])

\* the color filter "WHITE" is on: a record colored "White" is shown and
\* the records without a color are not
C12_witness ==
    /\ filter_color = <<87,72,73,84,69>> (* WHITE *)
    /\ \E i \in 1..Len(supplies) :
           supplies[i].color = <<87,104,105,116,101>> (* White *) /\ supplies[i].id \in RowSet(tree)
    /\ \E i \in 1..Len(supplies) :
           supplies[i].color = <<>> /\ supplies[i].id \notin RowSet(tree)

\* C13: query_supplies is a pure read: a call leaves supplies, next_id and
\* every view field unchanged, and a second call returns the same page and
\* total.
C13_query_is_pure ==
    [][op'.name = "query_supplies" =>
           /\ UNCHANGED <<supplies, next_id, current_user, search_query,
                          sort_by, sort_dir, filter_categories, filter_units,
                          filter_color, filter_tags, page_size, page_index>>
           /\ The(ret') = query_supplies(AppState)
           /\ The(ret') = query_supplies(AppState') ]_vars

\* query_supplies was called in a filtered, sorted view on its second page
C13_witness ==
    /\ op.name = "query_supplies"
    /\ sort_dir = "desc" /\ filter_categories # {} /\ page_index = 1
    /\ The(ret).total > page_size
    /\ Len(The(ret).rows) > 0

-----------------------------------------------------------------------------
(* The forms.                                                              *)

\* What the forms are to keep of a stored record.
WellFormed(s) ==
    /\ s.name # <<>>
    /\ s.quantity # NaN /\ s.quantity >= 0
    /\ \E i \in 1..Len(CATEGORIES) : s.category = CATEGORIES[i]
    /\ \E i \in 1..Len(UNITS) : s.unit = UNITS[i]

\* C14: in every state reached from the seed data through the add and edit
\* forms, every stored record has a non-empty name, a quantity >= 0, a
\* category in CATEGORIES and a unit in UNITS.
C14_records_well_formed ==
    \A i \in 1..Len(supplies) : WellFormed(supplies[i])

\* The same, for the records no form has stored a nan quantity in.
C14_well_formed_but_nan ==
    \A i \in 1..Len(supplies) :
        \/ WellFormed(supplies[i])
        \/ /\ supplies[i].quantity = NaN
           /\ WellFormed([supplies[i] EXCEPT !.quantity = 0])

SaveSteps == {"DetailScreen._save", "AddManualScreen._save", "AddLookupScreen._save"}

\* the quantity text a form's _save reads from the draft f
QtyText(form, f) == IF form = "AddLookupScreen._save" THEN LookupQty(f) ELSE Strip(f.qty)

\* A draft with an empty name, category or unit, or a quantity that is not a
\* number >= 0.
InvalidDraft(form, f) ==
    \/ Strip(f.name) = <<>>
    \/ Strip(f.category) = <<>>
    \/ Strip(f.unit) = <<>>
    \/ ~ParseFloat(QtyText(form, f)).ok
    \/ ParseFloat(QtyText(form, f)).value = NaN
    \/ ParseFloat(QtyText(form, f)).value < 0

\* a step of one of the three _save handlers
IsSaveStep == op'.name \in SaveSteps /\ now' = now

\* the step changes nothing but the banner, which shows a warning
Rejected ==
    /\ UNCHANGED <<supplies, next_id, screen, current_id>>
    /\ banner'.kind = "warn"

\* C15: a form submitted with a draft that fails validation (empty name,
\* category or unit, or a quantity that is not a number >= 0) is rejected
\* with a message; the collection, next_id and every field of the edited
\* record are unchanged and the same form stays raised.
C15_invalid_draft_rejected ==
    [][IsSaveStep /\ InvalidDraft(op'.name, op'.f) => Rejected]_vars

\* The same, for the drafts the form's own validation turns down.
C15_failed_validation_rejected ==
    [][IsSaveStep
         /\ (IF op'.name = "AddLookupScreen._save" THEN ~LookupValid(op'.f).ok
             ELSE ~_validate(op'.f).ok)
       => Rejected]_vars

-----------------------------------------------------------------------------
(* The updated timestamp.                                                  *)

AddSteps == {"AddManualScreen._save", "AddLookupScreen._save", "add_supply"}

\* the step appends one record stamped with the current time and leaves the
\* stored ones as they are
StampedAdd ==
    /\ op'.name \in AddSteps
    /\ Len(supplies') = Len(supplies) + 1
    /\ SubSeq(supplies', 1, Len(supplies)) = supplies
    /\ supplies'[Len(supplies')].updated = now

\* the step edits one record, stamps it with the current time and leaves the
\* others as they are
StampedEdit ==
    /\ op'.name = "DetailScreen._save"
    /\ Len(supplies') = Len(supplies)
    /\ \E i \in 1..Len(supplies) :
          /\ supplies'[i].updated = now
          /\ supplies'[i].updated >= supplies[i].updated
          /\ \A j \in 1..Len(supplies) : j # i => supplies'[j] = supplies[j]

\* the step removes the records of one id and leaves the others as they are
CleanDelete ==
    /\ op'.name \in {"DetailScreen._delete", "delete_supply"}
    /\ \E i \in 1..Len(supplies) :
          supplies' = SelectSeq(supplies, LAMBDA x : x.id # supplies[i].id)

\* C16: updated is set to the current time by add_supply and by every
\* successful edit, and changes at no other time: no record's updated ever
\* decreases or lies ahead of the clock, and a query, the delete of another
\* record, navigation, a rejected edit and the passing of time leave every
\* record's updated as it was.
C16_updated_stamped ==
    [][ /\ \A i \in 1..Len(supplies') : supplies'[i].updated <= now'
        /\ supplies' = supplies \/ StampedAdd \/ StampedEdit \/ CleanDelete
        /\ op'.name \in AddSteps /\ now' = now /\ banner'.kind = "success"
              => StampedAdd
        /\ op'.name = "DetailScreen._save" /\ now' = now /\ banner'.kind = "success"
              => supplies'[find_index(AppState, The(current_id))].updated = now
      ]_vars

\* a record edited after the clock has moved carries the new time, next to
\* records that keep theirs
C16_witness ==
    /\ op.name = "DetailScreen._save" /\ banner.kind = "success"
    /\ now > StartClock
    /\ find_index(AppState, The(current_id)) # 0
    /\ supplies[find_index(AppState, The(current_id))].updated = now
    /\ \E j \in 1..Len(supplies) : supplies[j].updated < StartClock

-----------------------------------------------------------------------------
(* Adding.                                                                 *)

\* the whole collection of the store self sorted ascending by the key k
AscendingBy(self, k) ==
    SortRows([self EXCEPT !.sort_by = k, !.sort_dir = "asc"], self.supplies)

\* in rows, every record whose key k equals that of r, other than r at its
\* last place, comes before r
AfterEqualKeys(self, k, rows, r) ==
    LET key(s) == _sort_key([self EXCEPT !.sort_by = k], s)
        last   == CHOOSE i \in 1..Len(rows) :
                      rows[i] = r /\ \A j \in (i + 1)..Len(rows) : rows[j] # r
    IN  /\ \E i \in 1..Len(rows) : rows[i] = r
        /\ \A j \in 1..Len(rows) : key(rows[j]) = key(r) => j <= last

\* C17: add_supply appends the new record as the last element and leaves
\* the stored records unchanged in content and order, so the collection
\* grows by exactly one, and in ascending order under each of the three
\* sort keys the new record comes after every stored record whose key
\* equals its own.
C17_add_appends ==
    [][op'.name \in AddSteps /\ banner'.kind = "success" =>
          /\ Len(supplies') = Len(supplies) + 1
          /\ SubSeq(supplies', 1, Len(supplies)) = supplies
          /\ supplies'[Len(supplies')] = The(ret')
          /\ \A k \in {"name", "quantity", "updated"} :
                AfterEqualKeys(AppState', k, AscendingBy(AppState', k), The(ret'))
          /\ sort_dir = "asc" /\ _matches_filters(AppState', The(ret'))
                => AfterEqualKeys(AppState', sort_by, sorted_rows(AppState'), The(ret'))
      ]_vars

\* a record added whose name key and whose quantity equal those of stored
\* records, shown in the table sorted ascending by name
C17_witness ==
    /\ op.name = "AddManualScreen._save" /\ banner.kind = "success"
    /\ sort_by = "name" /\ sort_dir = "asc"
    /\ supplies[Len(supplies)] = The(ret)
    /\ \E i \in 1..(Len(supplies) - 1) :
          Lower(supplies[i].name) = Lower(The(ret).name)
    /\ \E i \in 1..(Len(supplies) - 1) : supplies[i].quantity = The(ret).quantity
    /\ \E i \in 1..Len(tree) : tree[i] = The(ret).id

-----------------------------------------------------------------------------
(* Paging.                                                                 *)

\* the pages query_supplies returns for page_index = first, ..., last,
\* one after the other
RECURSIVE PagesFrom(_, _, _)
PagesFrom(self, first, last) ==
    IF first > last THEN <<>>
    ELSE query_supplies([self EXCEPT !.page_index = first]).rows
             \o PagesFrom(self, first + 1, last)

\* all the pages of the view self
AllPages(self) ==
    PagesFrom(self, 0, Ceil(query_supplies(self).total, self.page_size) - 1)

\* C18: for fixed records, filters and sort settings the pages of
\* page_index = 0, ..., ceil(total/page_size) - 1, one after the other, are
\* the whole filtered and sorted sequence: each matching record at exactly
\* one place of exactly one page, and no other record on any page.
C18_pages_partition ==
    \A ps \in {page_size, SmallPageSize} :
        LET self  == [AppState EXCEPT !.page_size = ps]
            pages == AllPages(self)
        IN  /\ pages = sorted_rows(self)
            /\ Len(pages) = MatchCount(self)
            /\ \A i \in 1..Len(pages) : _matches_filters(self, pages[i])

\* a view of two pages under the application's page size, the last one
\* partly filled, with records left out by the filters
C18_witness ==
    /\ Ceil(lbl_info.total, page_size) = 2
    /\ lbl_info.total % page_size # 0
    /\ lbl_info.total < Len(supplies)
    /\ lbl_info.total = query_supplies(AppState).total
    /\ Ceil(lbl_info.total, SmallPageSize) > 2

\* C19: after _go_page(-1) or _go_page(+1) page_index lies in
\* [0, max(1, ceil(total/page_size)) - 1], also when it lay beyond before;
\* it is page_index + delta brought into that range, so from a page in
\* range it moves by delta or not at all; Prev on the first page and Next
\* on the last change nothing; records, filters and sort settings stay.
C19_go_page_clamps ==
    [][op'.name = "_go_page" =>
          LET last  == Max(1, Ceil(query_supplies(AppState).total, page_size)) - 1
              delta == op'.delta
          IN  /\ delta \in {-1, 1}
              /\ page_index' \in 0..last
              /\ page_index' = Max(0, Min(page_index + delta, last))
              /\ page_index \in 0..last => page_index' - page_index \in {0, delta}
              /\ (page_index = 0 /\ delta = -1) \/ (page_index = last /\ delta = 1)
                    => UNCHANGED <<page_index, tree, lbl_info>>
              /\ UNCHANGED <<supplies, next_id, current_user, search_query,
                             sort_by, sort_dir, filter_categories, filter_units,
                             filter_color, filter_tags, page_size>>
              /\ query_supplies(AppState').total = query_supplies(AppState).total
      ]_vars

\* Next pressed two pages beyond the only page: page_index comes back to 0
C19_witness ==
    /\ op.name = "_go_page" /\ op.delta = 1
    /\ op.was = 2 /\ page_index = 0
    /\ lbl_info.total > 0 /\ Len(tree) = lbl_info.total

\* C20: a search submitted and the Sort & Filter dialog applied both set
\* page_index to 0 before the table is refreshed: right after either, the
\* table shows the first page of the new view, which holds a row whenever
\* a record matches the new filters.
C20_view_change_shows_first_page ==
    op.name \in {"_apply_search", "_apply"} =>
        /\ page_index = 0
        /\ tree = RowIds(PySlice(sorted_rows(AppState), 0, page_size))
        /\ lbl_info.total = MatchCount(AppState)
        /\ MatchCount(AppState) > 0 => tree # <<>>

\* a search just submitted that some but not all records match, and the
\* table showing them
C20_witness ==
    /\ op.name = "_apply_search"
    /\ search_query # <<>>
    /\ MatchCount(AppState) \in 1..(Len(supplies) - 1)
    /\ Len(tree) = MatchCount(AppState)

-----------------------------------------------------------------------------
(* The session.                                                            *)

\* the screens behind the login
SessionScreens == {"inventory", "detail", "add_manual", "add_lookup"}

\* C21: whenever the inventory, the detail or an add screen is raised,
\* current_user is set; a login with an empty username or an empty password
\* leaves current_user unset and the login screen raised; a login with both
\* non-empty sets current_user to the username and raises the inventory
\* screen; a confirmed logout clears current_user and raises the login
\* screen.
C21_session ==
    [][ /\ screen' \in SessionScreens => current_user' # None
        /\ screen' = "login" => current_user' = None
        /\ op'.name = "_login" /\ now' = now =>
              IF Strip(op'.u) = <<>> \/ Strip(op'.p) = <<>>
              THEN /\ current_user = None /\ current_user' = None
                   /\ screen = "login" /\ screen' = "login"
              ELSE /\ current_user' = Some(Strip(op'.u))
                   /\ screen' = "inventory"
        /\ op'.name = "_do_logout" /\ now' = now =>
              /\ current_user # None /\ current_user' = None
              /\ screen' = "login"
      ]_vars

\* back on the login screen after a session, a login with a username and a
\* blank password has been turned down
C21_witness ==
    /\ op.name = "_login"
    /\ Strip(op.u) # <<>> /\ op.p # <<>> /\ Strip(op.p) = <<>>
    /\ screen = "login" /\ current_user = None
    /\ banner.kind = "warn"
    /\ search_query # <<>>

\* C22: a logout and the login after it change current_user only: supplies,
\* next_id and the view (search_query, sort_by, sort_dir, the filter sets,
\* filter_color, filter_tags, page_index) stay, and the table the login
\* raises shows the page of that view over those records.
C22_session_keeps_view ==
    [][op'.name \in {"_login", "_do_logout"} /\ now' = now =>
          /\ UNCHANGED <<supplies, next_id, search_query, sort_by, sort_dir,
                         filter_categories, filter_units, filter_color,
                         filter_tags, page_size, page_index>>
          /\ op'.name = "_login" /\ current_user' # None =>
                /\ tree' = RowIds(query_supplies(AppState).rows)
                /\ lbl_info' = [shown |-> Len(tree'),
                                total |-> query_supplies(AppState).total]
      ]_vars

\* logged in again to the second page of a filtered view sorted by
\* quantity, as the session before left it
C22_witness ==
    /\ op.name = "_login" /\ current_user # None /\ screen = "inventory"
    /\ sort_by = "quantity" /\ sort_dir = "desc" /\ filter_categories # {}
    /\ page_index = 1
    /\ Len(tree) >= 1

====
